---- MODULE Spec2Model ----
\* Trading journal: the trade ledger (journal/models.py) and the analytics
\* reports computed from it (journal/management/commands/analytics.py,
\* run_analytics.py).
EXTENDS Integers, Sequences, FiniteSets, TLC

VARIABLES users, catalog, trades, next_id, out

vars == <<users, catalog, trades, next_id, out>>

\* ------------------------------------------------------------------ bounds
\* Largest number of rows ever inserted into the Trade table.
MaxTrades == 2

\* ------------------------------------------------------------- value model
\* A nullable column / an optional Python value: <<>> is None (NULL), <<v>> is v.
None == << >>
Some(v) == <<v>>
Val(o) == o[1]

\* Exact quotient num / den of a Python division, den > 0.
Rat(n, d) == [num |-> n, den |-> d]
RatEq(a, b) == a.num * b.den = b.num * a.den
RatLeq(a, b) == a.num * b.den <= b.num * a.den
RatSub(a, b) == [num |-> a.num * b.den - b.num * a.den, den |-> a.den * b.den]

Pow10(k) == IF k = 1 THEN 10 ELSE 100

\* f"{x:.1f}" / f"{x:.2f}": x rounded to `digits` decimals (ties to even), given
\* as the integer number of tenths / hundredths printed.
FormatFixed(r, digits) ==
    LET scaled == r.num * Pow10(digits)
        q == scaled \div r.den
        rem == scaled % r.den
    IN  IF 2 * rem > r.den THEN q + 1
        ELSE IF 2 * rem = r.den THEN q + (q % 2)
        ELSE q

\* ------------------------------------------------------------- input sets
UserNames == {"user0", "alice"}
Sides == {"buy", "sell"}
Quantities == {2}
Prices == {1, 2}
Dates == {1}
OptPrices == {None} \cup {Some(p) : p \in Prices}
OptDates == {None} \cup {Some(d) : d \in Dates}

\* ---------------------------------------------------------------- catalog
\* populate_mistakes.mistakes_data: (name, category) in source order.
mistakes_data == <<
    <<"Entered too early", "entry">>,
    <<"Entered too late", "entry">>,
    <<"Chased the price", "entry">>,
    <<"Counter-trend entry", "entry">>,
    <<"Exited too early", "exit">>,
    <<"Exited too late", "exit">>,
    <<"Pyramid selling", "exit">>,
    <<"No stop loss", "exit">>,
    <<"Position too large", "position">>,
    <<"Position too small", "position">>,
    <<"Added to loser", "position">>,
    <<"Over-leveraged", "position">>,
    <<"No risk-reward ratio", "risk">>,
    <<"Risked >1% per trade", "risk">>,
    <<"No diversification", "risk">>,
    <<"Ignored correlation", "risk">>,
    <<"FOMO trading", "psychology">>,
    <<"Revenge trading", "psychology">>,
    <<"Overconfidence", "psychology">>,
    <<"Hesitation", "psychology">>,
    <<"Confirmation bias", "psychology">>,
    <<"Insufficient research", "analysis">>,
    <<"Ignored news/events", "analysis">>,
    <<"Over-relied on indicators", "analysis">>,
    <<"Recency bias", "analysis">>,
    <<"Slippage", "execution">>,
    <<"Poor order type", "execution">>,
    <<"Partial fill issues", "execution">>,
    <<"Platform errors", "execution">>,
    <<"Journal not updated", "other">>,
    <<"No trading plan", "other">>,
    <<"Market hours mistake", "other">>,
    <<"Cost ignorance", "other">> >>

\* The Mistake row created for entry i of mistakes_data; its description is
\* the text of that entry, written here as the entry's position.
MistakeRow(i) ==
    [name |-> mistakes_data[i][1], category |-> mistakes_data[i][2], description |-> i]

\* The Mistake rows the populate_mistakes command leaves in an empty table.
PopulatedCatalog == {MistakeRow(i) : i \in 1..Len(mistakes_data)}

CatalogNames == {m.name : m \in catalog}

\* Trade.pnl with the buy formula applied to both sides.
pnl_long_only(t) ==
    IF t.exit_price = None THEN None
    ELSE Some((Val(t.exit_price) - t.entry_price) * t.quantity)

\* ----------------------------------------------------------------- Trade
\* Trade.pnl: None when exit_price is None, else the directional difference
\* times the quantity.
pnl(t) ==
    IF t.exit_price = None THEN None
    ELSE IF t.side = "buy"
         THEN Some((Val(t.exit_price) - t.entry_price) * t.quantity)
         ELSE Some((t.entry_price - Val(t.exit_price)) * t.quantity)

\* Closed as soon as there is an exit price, as Trade.pnl decides it.
is_closed_price_only(t) == t.exit_price # None

\* Trade.is_closed
is_closed(t) == t.exit_price # None /\ t.exit_date # None

\* (trade.pnl or 0): None and a zero amount both give 0.
pnl_or_0(t) == IF pnl(t) = None \/ Val(pnl(t)) = 0 THEN 0 ELSE Val(pnl(t))

\* ------------------------------------------------------------- querysets
\* A queryset of trades is the set of primary keys it selects.
\* user.trades.all()
user_trades(u) == {i \in DOMAIN trades : trades[i].user = u}

\* qs.exclude(exit_price__isnull=True).exclude(exit_date__isnull=True)
closed_trades(qs) ==
    {i \in {j \in qs : ~(trades[j].exit_price = None)} : ~(trades[i].exit_date = None)}

\* open_trades with the two null tests joined by AND instead of OR.
open_trades_and(qs) ==
    {i \in qs : trades[i].exit_price = None /\ trades[i].exit_date = None}

\* qs.filter(Q(exit_price__isnull=True) | Q(exit_date__isnull=True))
open_trades(qs) ==
    {i \in qs : trades[i].exit_price = None \/ trades[i].exit_date = None}

\* sum((trade.pnl or 0) for trade in qs)
RECURSIVE sum_pnl(_)
sum_pnl(qs) ==
    IF qs = {} THEN 0
    ELSE LET i == CHOOSE j \in qs : TRUE
         IN  pnl_or_0(trades[i]) + sum_pnl(qs \ {i})

\* ------------------------------------------------------------ operations
NoOutput == [kind |-> "none"]

\* Trade.objects.create(...): a row is inserted as given; Model.save() runs no
\* validation, and exit_price and exit_date are independently nullable columns.
TradeObjectsCreate(u, s, q, ep, xp, xd, ms) ==
    /\ next_id <= MaxTrades
    /\ u \in users
    /\ ms \subseteq CatalogNames
    /\ trades' = [i \in DOMAIN trades \cup {next_id} |->
                    IF i = next_id
                    THEN [user |-> u, side |-> s, quantity |-> q, entry_price |-> ep,
                          exit_price |-> xp, exit_date |-> xd, mistakes |-> ms]
                    ELSE trades[i]]
    /\ next_id' = next_id + 1
    /\ out' = NoOutput
    /\ UNCHANGED <<users, catalog>>

\* avg_closed_pnl with the guard off by one.
avg_closed_pnl_guard(closed_pnl, closed_count) ==
    IF closed_count > 1 THEN Some(Rat(closed_pnl, closed_count)) ELSE None

\* if closed_count > 0: avg_closed_pnl = closed_pnl / closed_count, and the line
\* is written; otherwise nothing is written (None).
avg_closed_pnl(closed_pnl, closed_count) ==
    IF closed_count > 0 THEN Some(Rat(closed_pnl, closed_count)) ELSE None

\* rule_followed_percentage with the open count as the numerator.
rule_followed_percentage_open(closed_count, open_count) ==
    IF closed_count + open_count > 0
    THEN Some(Rat(open_count * 100, closed_count + open_count))
    ELSE None

\* if closed_count + open_count > 0: the percentage is computed and its line
\* written; otherwise nothing is written (None).
rule_followed_percentage(closed_count, open_count) ==
    IF closed_count + open_count > 0
    THEN Some(Rat(closed_count * 100, closed_count + open_count))
    ELSE None

\* The text of an optional line's number.
FormatOpt(o, digits) == IF o = None THEN None ELSE Some(FormatFixed(Val(o), digits))

\* Command.rule_followed_analysis(user): what the section writes to stdout.
\* A line that is not written is None.
RuleFollowedReport(u) ==
    LET all_trades == user_trades(u)
        closed == closed_trades(all_trades)
        closed_count == Cardinality(closed)
        closed_pnl == sum_pnl(closed)
        opened == open_trades(all_trades)
        open_count == Cardinality(opened)
        open_pnl == sum_pnl(opened)
        avg == avg_closed_pnl(closed_pnl, closed_count)
        pct == rule_followed_percentage(closed_count, open_count)
    IN  [kind |-> "rule_followed_analysis",
         user |-> u,
         closed_count |-> closed_count,
         closed_pnl |-> closed_pnl,
         closed_pnl_text |-> FormatFixed(Rat(closed_pnl, 1), 2),
         open_count |-> open_count,
         open_pnl |-> open_pnl,
         open_pnl_text |-> FormatFixed(Rat(open_pnl, 1), 2),
         avg_closed_pnl |-> avg,
         avg_closed_pnl_text |-> FormatOpt(avg, 2),
         rule_followed_percentage |-> pct,
         rule_followed_percentage_text |-> FormatOpt(pct, 1)]

\* A report that stores an exit date on the trades it finds with an exit price
\* and no exit date.
rule_followed_analysis_saving(u) ==
    /\ u \in users
    /\ out' = RuleFollowedReport(u)
    /\ trades' = [i \in DOMAIN trades |->
                    IF trades[i].exit_price # None /\ trades[i].exit_date = None
                    THEN [trades[i] EXCEPT !.exit_date = Some(1)]
                    ELSE trades[i]]
    /\ UNCHANGED <<users, catalog, next_id>>

rule_followed_analysis(u) ==
    /\ u \in users
    /\ out' = RuleFollowedReport(u)
    /\ UNCHANGED <<users, catalog, trades, next_id>>

\* ---------------------------------------------------- emotion vs win rate
\* emotional_mistakes: the names of the emotional mistakes.
emotional_mistakes ==
    {"FOMO trading", "Revenge trading", "Overconfidence", "Hesitation", "Confirmation bias"}

\* Mistake.objects.filter(name__in=emotional_mistakes); a Mistake row is
\* identified by its unique name.
emotion_mistake_objects == {m.name : m \in {c \in catalog : c.name \in emotional_mistakes}}

\* The join of a queryset with the trade-mistake table: one row per tag of a trade.
mistake_rows(qs) == UNION {{<<i, n>> : n \in trades[i].mistakes} : i \in qs}

\* qs.filter(mistakes__in=objs): one result row per tag of a trade that is in objs.
filter_mistakes_in(qs, objs) == {r \in mistake_rows(qs) : r[2] \in objs}

\* .distinct(): each trade once.
distinct(rows) == {r[1] : r \in rows}

\* exclude read as "carries a tag outside objs".
exclude_mistakes_in_other(qs, objs) ==
    {i \in qs : \E n \in trades[i].mistakes : n \notin objs}

\* qs.exclude(mistakes__in=objs): the trades that have no tag in objs.
exclude_mistakes_in(qs, objs) ==
    {i \in qs : i \notin {r[1] : r \in filter_mistakes_in(qs, objs)}}

\* trades.filter(mistakes__in=emotion_mistake_objects).distinct()
emotional_trades(qs) == distinct(filter_mistakes_in(qs, emotion_mistake_objects))

\* trades.exclude(mistakes__in=emotion_mistake_objects).distinct()
non_emotional_trades(qs) == exclude_mistakes_in(qs, emotion_mistake_objects)

\* The wins filter with >= and <= (a breakeven trade wins).
wins_filter_breakeven(qs) ==
    {i \in qs :
        /\ trades[i].exit_price # None
        /\ \/ trades[i].side = "buy" /\ Val(trades[i].exit_price) >= trades[i].entry_price
           \/ trades[i].side = "sell" /\ Val(trades[i].exit_price) <= trades[i].entry_price}

\* The wins filter: Q(side='buy', exit_price__gt=F('entry_price')) |
\* Q(side='sell', exit_price__lt=F('entry_price')); a NULL exit price matches neither.
wins_filter(qs) ==
    {i \in qs :
        /\ trades[i].exit_price # None
        /\ \/ trades[i].side = "buy" /\ Val(trades[i].exit_price) > trades[i].entry_price
           \/ trades[i].side = "sell" /\ Val(trades[i].exit_price) < trades[i].entry_price}

\* calculate_win_rate with the wins counted over the whole queryset instead of
\* its closed trades.
calculate_win_rate_unclosed(trade_queryset) ==
    LET closed == closed_trades(trade_queryset)
    IN  IF Cardinality(closed) = 0 THEN <<0, 0>>
        ELSE <<Cardinality(wins_filter(trade_queryset)), Cardinality(closed)>>

\* calculate_win_rate(trade_queryset): (wins, closed count).
calculate_win_rate(trade_queryset) ==
    LET closed == closed_trades(trade_queryset)
    IN  IF Cardinality(closed) = 0 THEN <<0, 0>>
        ELSE <<Cardinality(wins_filter(closed)), Cardinality(closed)>>

\* (wins / total * 100) if total > 0 else 0
win_rate(wins, total) == IF total > 0 THEN Rat(wins * 100, total) ELSE Rat(0, 1)

\* rate_diff emitted when either partition has a closed trade.
rate_diff_or(emotion_total, non_emotion_total, emotion_win_rate, non_emotion_win_rate) ==
    IF emotion_total > 0 \/ non_emotion_total > 0
    THEN Some(RatSub(emotion_win_rate, non_emotion_win_rate))
    ELSE None

\* if emotion_total > 0 and non_emotion_total > 0: the difference line is
\* written; otherwise nothing is written (None).
rate_diff(emotion_total, non_emotion_total, emotion_win_rate, non_emotion_win_rate) ==
    IF emotion_total > 0 /\ non_emotion_total > 0
    THEN Some(RatSub(emotion_win_rate, non_emotion_win_rate))
    ELSE None

\* Command.emotion_win_rate_analysis(user): what the section writes to stdout.
EmotionReport(u) ==
    LET all_trades == user_trades(u)
        emotional == emotional_trades(all_trades)
        non_emotional == non_emotional_trades(all_trades)
        e == calculate_win_rate(emotional)
        n == calculate_win_rate(non_emotional)
        e_rate == win_rate(e[1], e[2])
        n_rate == win_rate(n[1], n[2])
        diff == rate_diff(e[2], n[2], e_rate, n_rate)
    IN  [kind |-> "emotion_win_rate_analysis",
         user |-> u,
         emotional_count |-> Cardinality(emotional),
         emotion_total |-> e[2],
         emotion_wins |-> e[1],
         emotion_win_rate |-> e_rate,
         emotion_win_rate_text |-> FormatFixed(e_rate, 1),
         non_emotional_count |-> Cardinality(non_emotional),
         non_emotion_total |-> n[2],
         non_emotion_wins |-> n[1],
         non_emotion_win_rate |-> n_rate,
         non_emotion_win_rate_text |-> FormatFixed(n_rate, 1),
         rate_diff |-> diff,
         rate_diff_text |-> FormatOpt(diff, 1)]

emotion_win_rate_analysis(u) ==
    /\ u \in users
    /\ out' = EmotionReport(u)
    /\ UNCHANGED <<users, catalog, trades, next_id>>

\* ------------------------------------------------------ mistake frequency
\* Mistake.Meta.ordering = ['category', 'name']: the names of mistakes_data in
\* that order (the string comparisons, tabulated).
mistake_ordering == <<
    "Ignored news/events", "Insufficient research", "Over-relied on indicators",
    "Recency bias",
    "Chased the price", "Counter-trend entry", "Entered too early", "Entered too late",
    "Partial fill issues", "Platform errors", "Poor order type", "Slippage",
    "Exited too early", "Exited too late", "No stop loss", "Pyramid selling",
    "Cost ignorance", "Journal not updated", "Market hours mistake", "No trading plan",
    "Added to loser", "Over-leveraged", "Position too large", "Position too small",
    "Confirmation bias", "FOMO trading", "Hesitation", "Overconfidence",
    "Revenge trading",
    "Ignored correlation", "No diversification", "No risk-reward ratio",
    "Risked >1% per trade" >>

\* The rows of mistakes_data in Meta.ordering.
ordered_rows ==
    [k \in 1..Len(mistake_ordering) |->
        CHOOSE m \in PopulatedCatalog : m.name = mistake_ordering[k]]

\* Mistake.objects.all(): the rows of the catalog in Meta.ordering.
all_mistakes ==
    LET in_catalog(m) == m \in catalog
    IN  SelectSeq(ordered_rows, in_catalog)

\* Mistake.get_category_display(): the label of a category code.
category_display(c) ==
    CASE c = "entry" -> "Entry Timing"
      [] c = "exit" -> "Exit Timing"
      [] c = "position" -> "Position Sizing"
      [] c = "risk" -> "Risk Management"
      [] c = "psychology" -> "Psychology/Emotion"
      [] c = "analysis" -> "Analysis/Research"
      [] c = "execution" -> "Trade Execution"
      [] c = "other" -> "Other"

\* filter(mistakes=mistake) over every user's trades (mistake.trades).
filter_mistake_all(qs, name) == {i \in DOMAIN trades : name \in trades[i].mistakes}

\* qs.filter(mistakes=mistake): the trades of qs carrying the tag (the
\* trade-mistake table holds a pair at most once).
filter_mistake(qs, name) == {i \in qs : name \in trades[i].mistakes}

\* A descending sort that is not stable: entries with equal keys come out in
\* the reverse of their order in seq (an ascending sort, then reversed).
StableSortDesc_reversed(seq, keys) ==
    LET Insert(sorted, i) ==
            LET n == Cardinality({j \in 1..Len(sorted) : keys[sorted[j]] > keys[i]})
            IN  SubSeq(sorted, 1, n) \o <<i>> \o SubSeq(sorted, n + 1, Len(sorted))
        F[k \in 0..Len(seq)] == IF k = 0 THEN << >> ELSE Insert(F[k - 1], k)
    IN  [k \in 1..Len(seq) |-> seq[F[Len(seq)][k]]]

\* list.sort(key=..., reverse=True): descending by key, equal keys keeping
\* their order; keys[k] is the key of seq[k].
StableSortDesc(seq, keys) ==
    LET Insert(sorted, i) ==
            LET n == Cardinality({j \in 1..Len(sorted) : keys[sorted[j]] >= keys[i]})
            IN  SubSeq(sorted, 1, n) \o <<i>> \o SubSeq(sorted, n + 1, Len(sorted))
        F[k \in 0..Len(seq)] == IF k = 0 THEN << >> ELSE Insert(F[k - 1], k)
    IN  [k \in 1..Len(seq) |-> seq[F[Len(seq)][k]]]

\* The dict for one mistake with the P&L taken over every trade carrying the
\* tag instead of the closed ones.
mistake_stat_unclosed(qs, mistake) ==
    LET mistake_trades == filter_mistake(qs, mistake.name)
        total_pnl == sum_pnl(mistake_trades)
    IN  [name |-> mistake.name,
         category |-> category_display(mistake.category),
         frequency |-> Cardinality(mistake_trades),
         avg_pnl |-> IF Cardinality(mistake_trades) > 0
                     THEN Rat(total_pnl, Cardinality(mistake_trades))
                     ELSE Rat(0, 1),
         total_pnl |-> total_pnl]

\* The dict appended to mistake_stats for one mistake with trade_count > 0.
mistake_stat(qs, mistake) ==
    LET mistake_trades == filter_mistake(qs, mistake.name)
        closed_mistake_trades == closed_trades(mistake_trades)
        total_pnl == sum_pnl(closed_mistake_trades)
    IN  [name |-> mistake.name,
         category |-> category_display(mistake.category),
         frequency |-> Cardinality(mistake_trades),
         avg_pnl |-> IF Cardinality(closed_mistake_trades) > 0
                     THEN Rat(total_pnl, Cardinality(closed_mistake_trades))
                     ELSE Rat(0, 1),
         total_pnl |-> total_pnl]

\* mistake_stats after the loop over Mistake.objects.all() and the sort.
mistake_stats(qs) ==
    LET ms == all_mistakes
        F[k \in 0..Len(ms)] ==
            IF k = 0 THEN << >>
            ELSE IF Cardinality(filter_mistake(qs, ms[k].name)) > 0
                 THEN Append(F[k - 1], mistake_stat(qs, ms[k]))
                 ELSE F[k - 1]
        unsorted == F[Len(ms)]
    IN  StableSortDesc(unsorted, [k \in 1..Len(unsorted) |-> unsorted[k].frequency])

\* The number of mistakes the scheduled command and the ad-hoc script list.
CommandTopN == 10
ScriptTopN == 5

\* The slice one entry short.
top_short(stats, n) == SubSeq(stats, 1, IF Len(stats) < n THEN Len(stats) ELSE n - 1)

\* mistake_stats[:n]
top(stats, n) == SubSeq(stats, 1, IF Len(stats) < n THEN Len(stats) ELSE n)

\* The two lines written for an entry of the list.
stat_lines(stat) ==
    [name |-> stat.name, category |-> stat.category, frequency |-> stat.frequency,
     avg_pnl_text |-> FormatFixed(stat.avg_pnl, 2),
     total_pnl_text |-> FormatFixed(Rat(stat.total_pnl, 1), 2)]

\* category_stats with each mistake overwriting its category's entry instead
\* of adding to it.
category_stats_overwrite(stats) ==
    LET F[k \in 0..Len(stats)] ==
            IF k = 0 THEN << >>
            ELSE LET prev == F[k - 1]
                     cat == stats[k].category
                 IN  IF \E j \in 1..Len(prev) : prev[j].category = cat
                     THEN [j \in 1..Len(prev) |->
                            IF prev[j].category = cat
                            THEN [category |-> cat,
                                  count |-> stats[k].frequency,
                                  total_pnl |-> stats[k].total_pnl]
                            ELSE prev[j]]
                     ELSE Append(prev, [category |-> cat,
                                        count |-> stats[k].frequency,
                                        total_pnl |-> stats[k].total_pnl])
    IN  F[Len(stats)]

\* category_stats: per category, in order of first appearance in mistake_stats,
\* the summed frequency and total_pnl.
category_stats(stats) ==
    LET F[k \in 0..Len(stats)] ==
            IF k = 0 THEN << >>
            ELSE LET prev == F[k - 1]
                     cat == stats[k].category
                 IN  IF \E j \in 1..Len(prev) : prev[j].category = cat
                     THEN [j \in 1..Len(prev) |->
                            IF prev[j].category = cat
                            THEN [category |-> cat,
                                  count |-> prev[j].count + stats[k].frequency,
                                  total_pnl |-> prev[j].total_pnl + stats[k].total_pnl]
                            ELSE prev[j]]
                     ELSE Append(prev, [category |-> cat,
                                        count |-> stats[k].frequency,
                                        total_pnl |-> stats[k].total_pnl])
    IN  F[Len(stats)]

\* The category lines in the order of category_stats, without the sort.
category_lines_unsorted(stats) ==
    LET items == category_stats(stats)
    IN  [k \in 1..Len(items) |->
            [category |-> items[k].category,
             count |-> items[k].count,
             total_pnl |-> items[k].total_pnl,
             avg_pnl |-> IF items[k].count > 0
                         THEN Rat(items[k].total_pnl, items[k].count)
                         ELSE Rat(0, 1)]]

\* The category lines: sorted(category_stats.items(), key=count, reverse=True)
\* with avg_pnl = total_pnl / count if count > 0 else 0.
category_lines(stats) ==
    LET items == category_stats(stats)
        sorted == StableSortDesc(items, [k \in 1..Len(items) |-> items[k].count])
    IN  [k \in 1..Len(sorted) |->
            [category |-> sorted[k].category,
             count |-> sorted[k].count,
             total_pnl |-> sorted[k].total_pnl,
             avg_pnl |-> IF sorted[k].count > 0
                         THEN Rat(sorted[k].total_pnl, sorted[k].count)
                         ELSE Rat(0, 1)]]

\* Command.mistake_frequency_analysis(user): the sorted list, the lines written
\* for its first ten entries, the "no mistakes" message and the category lines.
MistakeReport(u) ==
    LET stats == mistake_stats(user_trades(u))
        listed == top(stats, CommandTopN)
    IN  [kind |-> "mistake_frequency_analysis",
         user |-> u,
         mistake_stats |-> stats,
         listed |-> [k \in 1..Len(listed) |-> stat_lines(listed[k])],
         no_mistakes |-> (stats = << >>),
         categories |-> category_lines(stats)]

mistake_frequency_analysis(u) ==
    /\ u \in users
    /\ out' = MistakeReport(u)
    /\ UNCHANGED <<users, catalog, trades, next_id>>

\* ------------------------------------------------------ populate_mistakes
\* The table and the count after the first k entries of mistakes_data:
\* Mistake.objects.get_or_create(name=name, defaults={description, category})
\* inserts the row when no row has the name and leaves the table alone when
\* one has.
get_or_create_all(table) ==
    LET F[k \in 0..Len(mistakes_data)] ==
            IF k = 0 THEN [table |-> table, created_count |-> 0]
            ELSE LET prev == F[k - 1]
                 IN  IF \E m \in prev.table : m.name = mistakes_data[k][1]
                     THEN prev
                     ELSE [table |-> prev.table \cup {MistakeRow(k)},
                           created_count |-> prev.created_count + 1]
    IN  F[Len(mistakes_data)]

\* The command counting every entry of mistakes_data as created.
populate_mistakes_recount ==
    /\ catalog' = get_or_create_all(catalog).table
    /\ out' = [kind |-> "populate_mistakes", created_count |-> Len(mistakes_data)]
    /\ UNCHANGED <<users, trades, next_id>>

\* populate_mistakes Command.handle: the loop over mistakes_data and the
\* 'Successfully populated <created_count> trading mistakes' line.
populate_mistakes ==
    /\ catalog' = get_or_create_all(catalog).table
    /\ out' = [kind |-> "populate_mistakes",
               created_count |-> get_or_create_all(catalog).created_count]
    /\ UNCHANGED <<users, trades, next_id>>

\* ------------------------------------------------------------- validation
\* Time is counted in minutes; timezone.timedelta(minutes=1).
Grace == 1

\* The truth value Python gives an optional Decimal: None and 0 are false.
Truthy(o) == o # None /\ Val(o) # 0

\* Trade.clean with the quantity test letting 0 through.
Trade_clean_nonnegative(t, now) ==
    IF t.entry_date # None /\ Val(t.entry_date) > now + Grace
    THEN Some("Entry date cannot be in the future.")
    ELSE IF t.exit_date # None /\ Val(t.exit_date) > now + Grace
    THEN Some("Exit date cannot be in the future.")
    ELSE IF t.entry_date # None /\ t.exit_date # None
            /\ Val(t.exit_date) < Val(t.entry_date)
    THEN Some("Exit date cannot be before entry date.")
    ELSE IF t.quantity < 0
    THEN Some("Quantity must be greater than zero.")
    ELSE IF t.entry_price <= 0
    THEN Some("Entry price must be greater than zero.")
    ELSE IF t.exit_price # None /\ Val(t.exit_price) <= 0
    THEN Some("Exit price must be greater than zero.")
    ELSE IF (Truthy(t.exit_price) /\ t.exit_date = None)
            \/ (t.exit_date # None /\ ~Truthy(t.exit_price))
    THEN Some("Both exit price and exit date must be provided together, or both left empty.")
    ELSE None

\* Trade.clean at time now: the message of the first ValidationError raised,
\* None when none is (quantity and entry_price are always given here; a
\* datetime is never false).
Trade_clean(t, now) ==
    IF t.entry_date # None /\ Val(t.entry_date) > now + Grace
    THEN Some("Entry date cannot be in the future.")
    ELSE IF t.exit_date # None /\ Val(t.exit_date) > now + Grace
    THEN Some("Exit date cannot be in the future.")
    ELSE IF t.entry_date # None /\ t.exit_date # None
            /\ Val(t.exit_date) < Val(t.entry_date)
    THEN Some("Exit date cannot be before entry date.")
    ELSE IF t.quantity <= 0
    THEN Some("Quantity must be greater than zero.")
    ELSE IF t.entry_price <= 0
    THEN Some("Entry price must be greater than zero.")
    ELSE IF t.exit_price # None /\ Val(t.exit_price) <= 0
    THEN Some("Exit price must be greater than zero.")
    ELSE IF (Truthy(t.exit_price) /\ t.exit_date = None)
            \/ (t.exit_date # None /\ ~Truthy(t.exit_price))
    THEN Some("Both exit price and exit date must be provided together, or both left empty.")
    ELSE None

\* Model.clean_fields for the one column given without a value here:
\* entry_date is not nullable.
clean_fields(t) ==
    IF t.entry_date = None THEN {<<"entry_date", "This field cannot be null.">>} ELSE {}

\* Model.full_clean: the errors of clean_fields and of clean, keyed by field
\* ("__all__" for clean); ValidationError is raised iff there is one.
full_clean(t, now) ==
    clean_fields(t) \cup
        (IF Trade_clean(t, now) = None THEN {} ELSE {<<"__all__", Val(Trade_clean(t, now))>>})

\* trade.full_clean() on an instance built in memory, as the tests do.
Trade_full_clean(t, now) ==
    /\ out' = [kind |-> "full_clean", instance |-> t, now |-> now,
               errors |-> full_clean(t, now)]
    /\ UNCHANGED <<users, catalog, trades, next_id>>

\* hasattr(user, 'userprofile'): the accounts that have a profile row.
userprofile == {"alice"}

\* The limits of the form on quantity and on prices.
FormMaxQuantity == 1000000
FormMaxPrice == 10000000

\* TradeCreateForm.clean without the two tests on a lone exit field.
TradeCreateForm_clean_lone_exit(user, data, now) ==
    IF ~(user # None /\ Val(user) \in userprofile)
    THEN [exception |-> Some("UnboundLocalError"), error |-> None]
    ELSE [exception |-> None,
          error |->
            IF Val(data.entry_date) > now + Grace
            THEN Some("Entry date cannot be in the future (user timezone).")
            ELSE IF data.exit_date # None /\ Val(data.exit_date) > now + Grace
            THEN Some("Exit date cannot be in the future (user timezone).")
            ELSE IF data.exit_date # None /\ Val(data.exit_date) < Val(data.entry_date)
            THEN Some("Exit date cannot be before entry date.")
            ELSE IF data.quantity <= 0
            THEN Some("Quantity must be greater than zero.")
            ELSE IF data.quantity > FormMaxQuantity
            THEN Some("Quantity seems unreasonably large. Please verify.")
            ELSE IF data.entry_price <= 0
            THEN Some("Entry price must be greater than zero.")
            ELSE IF data.entry_price > FormMaxPrice
            THEN Some("Entry price seems unreasonably high. Please verify.")
            ELSE IF data.exit_price # None /\ Val(data.exit_price) <= 0
            THEN Some("Exit price must be greater than zero.")
            ELSE IF data.exit_price # None /\ Val(data.exit_price) > FormMaxPrice
            THEN Some("Exit price seems unreasonably high. Please verify.")
            ELSE None]

\* TradeCreateForm.clean for the form built with `user` (None when built
\* without): pytz is imported only in the branch taken for a user with a
\* profile, so the other branch, which reads pytz.UTC, raises
\* UnboundLocalError; otherwise the message of the first forms.ValidationError
\* raised, None when none is. The symbol given here is always well formed.
TradeCreateForm_clean(user, data, now) ==
    IF ~(user # None /\ Val(user) \in userprofile)
    THEN [exception |-> Some("UnboundLocalError"), error |-> None]
    ELSE [exception |-> None,
          error |->
            IF Val(data.entry_date) > now + Grace
            THEN Some("Entry date cannot be in the future (user timezone).")
            ELSE IF data.exit_date # None /\ Val(data.exit_date) > now + Grace
            THEN Some("Exit date cannot be in the future (user timezone).")
            ELSE IF Truthy(data.exit_price) /\ data.exit_date = None
            THEN Some("Exit date is required when exit price is provided.")
            ELSE IF data.exit_date # None /\ ~Truthy(data.exit_price)
            THEN Some("Exit price is required when exit date is provided.")
            ELSE IF data.exit_date # None /\ Val(data.exit_date) < Val(data.entry_date)
            THEN Some("Exit date cannot be before entry date.")
            ELSE IF data.quantity <= 0
            THEN Some("Quantity must be greater than zero.")
            ELSE IF data.quantity > FormMaxQuantity
            THEN Some("Quantity seems unreasonably large. Please verify.")
            ELSE IF data.entry_price <= 0
            THEN Some("Entry price must be greater than zero.")
            ELSE IF data.entry_price > FormMaxPrice
            THEN Some("Entry price seems unreasonably high. Please verify.")
            ELSE IF data.exit_price # None /\ Val(data.exit_price) <= 0
            THEN Some("Exit price must be greater than zero.")
            ELSE IF data.exit_price # None /\ Val(data.exit_price) > FormMaxPrice
            THEN Some("Exit price seems unreasonably high. Please verify.")
            ELSE None]

\* form.is_valid(): the form's clean, then (ModelForm._post_clean) the
\* model's full_clean on the instance built from the data; an exception other
\* than ValidationError leaves is_valid through the caller.
form_errors(user, data, now) ==
    LET c == TradeCreateForm_clean(user, data, now)
    IN  [exception |-> c.exception,
         form_clean |-> c.error,
         errors |-> IF c.exception # None THEN {}
                    ELSE (IF c.error = None THEN {} ELSE {<<"__all__", Val(c.error)>>})
                            \cup full_clean(data, now)]

\* TradeCreateForm(data=data).is_valid() as the form tests call it, the form
\* built with a user or without one: the exception that leaves is_valid, or
\* the verdict and form.errors.
TradeCreateForm_is_valid(user, data, now) ==
    LET v == form_errors(user, data, now)
    IN  /\ user # None => Val(user) \in users
        /\ out' = [kind |-> "is_valid", user |-> user, data |-> data, now |-> now,
                   exception |-> v.exception,
                   is_valid |-> (v.exception = None /\ v.errors = {}),
                   errors |-> v.errors]
        /\ UNCHANGED <<users, catalog, trades, next_id>>

\* The row TradeCreateForm.save writes: the form's columns and the user; the
\* chosen mistakes are not written (save(commit=False) without save_m2m), so
\* a new row has none and an updated row keeps its own.
saved_row(user, data, ms) ==
    [user |-> user, side |-> data.side, quantity |-> data.quantity,
     entry_price |-> data.entry_price, exit_price |-> data.exit_price,
     exit_date |-> data.exit_date, mistakes |-> ms]

\* trade_create (POST) by the logged-in user: the row is inserted iff the
\* form is valid; the page is shown again with the errors otherwise; an
\* exception raised by is_valid is a server error.
trade_create(user, data, now) ==
    LET v == form_errors(Some(user), data, now)
        saved == v.exception = None /\ v.errors = {}
    IN  /\ user \in users
        /\ next_id <= MaxTrades
        /\ trades' = IF saved
                     THEN [i \in DOMAIN trades \cup {next_id} |->
                            IF i = next_id THEN saved_row(user, data, {}) ELSE trades[i]]
                     ELSE trades
        /\ next_id' = IF saved THEN next_id + 1 ELSE next_id
        /\ out' = [kind |-> "trade_create", user |-> user, data |-> data,
                   status |-> IF v.exception # None THEN "server error"
                              ELSE IF saved THEN "redirect" ELSE "form errors",
                   exception |-> v.exception, form_clean |-> v.form_clean,
                   errors |-> v.errors]
        /\ UNCHANGED <<users, catalog>>

\* trade_update looking the trade up among all trades instead of the user's.
trade_update_any_owner(user, trade_id, data, now) ==
    LET found == trade_id \in DOMAIN trades
        v == form_errors(Some(user), data, now)
        saved == found /\ v.exception = None /\ v.errors = {}
    IN  /\ user \in users
        /\ trades' = IF saved
                     THEN [trades EXCEPT ![trade_id] =
                            saved_row(user, data, trades[trade_id].mistakes)]
                     ELSE trades
        /\ out' = IF ~found
                  THEN [kind |-> "trade_update", user |-> user, trade_id |-> trade_id,
                        data |-> data,
                        status |-> "not found", exception |-> None,
                        form_clean |-> None, errors |-> {}]
                  ELSE [kind |-> "trade_update", user |-> user, trade_id |-> trade_id,
                        data |-> data,
                        status |-> IF v.exception # None THEN "server error"
                                   ELSE IF saved THEN "redirect" ELSE "form errors",
                        exception |-> v.exception, form_clean |-> v.form_clean,
                        errors |-> v.errors]
        /\ UNCHANGED <<users, catalog, next_id>>

\* trade_update (POST) by the logged-in user: 404 unless the trade is one of
\* the user's own; then as trade_create, the row being overwritten.
trade_update(user, trade_id, data, now) ==
    LET found == trade_id \in DOMAIN trades /\ trades[trade_id].user = user
        v == form_errors(Some(user), data, now)
        saved == found /\ v.exception = None /\ v.errors = {}
    IN  /\ user \in users
        /\ trades' = IF saved
                     THEN [trades EXCEPT ![trade_id] =
                            saved_row(user, data, trades[trade_id].mistakes)]
                     ELSE trades
        /\ out' = IF ~found
                  THEN [kind |-> "trade_update", user |-> user, trade_id |-> trade_id,
                        data |-> data,
                        status |-> "not found", exception |-> None,
                        form_clean |-> None, errors |-> {}]
                  ELSE [kind |-> "trade_update", user |-> user, trade_id |-> trade_id,
                        data |-> data,
                        status |-> IF v.exception # None THEN "server error"
                                   ELSE IF saved THEN "redirect" ELSE "form errors",
                        exception |-> v.exception, form_clean |-> v.form_clean,
                        errors |-> v.errors]
        /\ UNCHANGED <<users, catalog, next_id>>

\* trade_delete by the logged-in user: 404 unless the trade is one of the
\* user's own; a POST deletes the row (its id is not given out again) and
\* redirects, a GET shows the confirmation page.
trade_delete(user, trade_id, method) ==
    LET found == trade_id \in DOMAIN trades /\ trades[trade_id].user = user
    IN  /\ user \in users
        /\ trades' = IF found /\ method = "POST"
                     THEN [i \in DOMAIN trades \ {trade_id} |-> trades[i]]
                     ELSE trades
        /\ out' = [kind |-> "trade_delete", user |-> user, trade_id |-> trade_id,
                   method |-> method,
                   status |-> IF ~found THEN "not found"
                              ELSE IF method = "POST" THEN "redirect"
                              ELSE "confirmation page"]
        /\ UNCHANGED <<users, catalog, next_id>>

\* ----------------------------------------------------------- entry points
\* signup_view (POST, valid form): UserCreationForm.save() inserts the account;
\* a username already taken is a form error.
signup_view(username) ==
    /\ username \notin users
    /\ users' = users \cup {username}
    /\ out' = NoOutput
    /\ UNCHANGED <<catalog, trades, next_id>>

\* User.objects.all() in primary-key order.
user_order == <<"user0", "alice">>
all_users ==
    LET exists(u) == u \in users
    IN  SelectSeq(user_order, exists)

\* Command.run_analytics(user): the three sections, in this order.
run_analytics(u) ==
    [user |-> u,
     rule |-> RuleFollowedReport(u),
     emotion |-> EmotionReport(u),
     mistake |-> MistakeReport(u)]

\* Command.handle: with --user, the report of that user or the message
\* 'User "<name>" not found' (User.DoesNotExist is caught); without it, the
\* report of every user who has at least one trade.
handle(username) ==
    /\ out' = IF username # None
              THEN IF Val(username) \in users
                   THEN [kind |-> "analytics", username |-> username, error |-> None,
                         traceback |-> None, reports |-> <<run_analytics(Val(username))>>]
                   ELSE [kind |-> "analytics", username |-> username,
                         error |-> Some("not found"),
                         traceback |-> None, reports |-> << >>]
              ELSE LET has_trades(u) == user_trades(u) # {}
                       with_trades == SelectSeq(all_users, has_trades)
                   IN  [kind |-> "analytics", username |-> None, error |-> None,
                        traceback |-> None,
                        reports |-> [k \in 1..Len(with_trades) |->
                                        run_analytics(with_trades[k])]]
    /\ UNCHANGED <<users, catalog, trades, next_id>>

\* Section 3 of run_analytics.py: the same list, its first five entries
\* printed, no category breakdown.
ScriptMistakeReport(u) ==
    LET stats == mistake_stats(user_trades(u))
        listed == top(stats, ScriptTopN)
    IN  [kind |-> "mistake_frequency_analysis",
         user |-> u,
         mistake_stats |-> stats,
         listed |-> [k \in 1..Len(listed) |-> stat_lines(listed[k])],
         no_mistakes |-> (stats = << >>)]

\* run_analytics.py: User.objects.get(username='user0') outside any try, so a
\* missing user0 ends the script with the User.DoesNotExist traceback;
\* otherwise the total and the three sections (1 and 2 as in the command).
run_analytics_script ==
    /\ out' = IF "user0" \in users
              THEN [kind |-> "run_analytics.py", username |-> Some("user0"),
                    error |-> None, traceback |-> None,
                    reports |-> <<[user |-> "user0",
                                   total_trades |-> Cardinality(user_trades("user0")),
                                   rule |-> RuleFollowedReport("user0"),
                                   emotion |-> EmotionReport("user0"),
                                   mistake |-> ScriptMistakeReport("user0")]>>]
              ELSE [kind |-> "run_analytics.py", username |-> Some("user0"),
                    error |-> None, traceback |-> Some("User.DoesNotExist"),
                    reports |-> << >>]
    /\ UNCHANGED <<users, catalog, trades, next_id>>

\* -------------------------------------------------------- specifications
Init ==
    /\ users = UserNames
    /\ catalog = PopulatedCatalog
    /\ trades = << >>
    /\ next_id = 1
    /\ out = NoOutput

\* The ledger of untagged trades and the rule-compliance report.
CreateUntagged ==
    \E u \in UserNames, s \in Sides, q \in Quantities, ep \in Prices,
       xp \in OptPrices, xd \in OptDates :
        TradeObjectsCreate(u, s, q, ep, xp, xd, {})

RunRuleFollowed == \E u \in UserNames : rule_followed_analysis(u)

Next == CreateUntagged \/ RunRuleFollowed

Spec == Init /\ [][Next]_vars

\* The ledger of one user's tagged trades and the emotion report.
EmotionTagSets ==
    {{}, {"FOMO trading"}, {"FOMO trading", "Revenge trading"}, {"Slippage"}}

EmotionExits ==
    {<<None, None>>} \cup {<<Some(p), xd>> : p \in {1, 2, 3}, xd \in OptDates}

CreateTagged ==
    \E s \in Sides, x \in EmotionExits, ms \in EmotionTagSets :
        TradeObjectsCreate("user0", s, 1, 2, x[1], x[2], ms)

RunEmotion == \E u \in UserNames : emotion_win_rate_analysis(u)

NextEmotion == CreateTagged \/ RunEmotion

SpecEmotion == Init /\ [][NextEmotion]_vars

\* The ledger of two users' tagged trades and the mistake-frequency report.
MistakeTagSets ==
    {{}, {"FOMO trading"}, {"Slippage", "FOMO trading"},
     {"FOMO trading", "Revenge trading"},
     {"Slippage", "FOMO trading", "Revenge trading"}}

\* Open, exit price only, closed at a gain (3) and closed at a loss (1) for
\* the long trades entered at 2.
MistakeExits ==
    {<<None, None>>, <<Some(3), None>>, <<Some(3), Some(1)>>, <<Some(1), Some(1)>>}

CreateTaggedByAnyone ==
    \E u \in UserNames, x \in MistakeExits, ms \in MistakeTagSets :
        TradeObjectsCreate(u, "buy", 1, 2, x[1], x[2], ms)

RunMistake == \E u \in UserNames : mistake_frequency_analysis(u)

NextMistake == CreateTaggedByAnyone \/ RunMistake

SpecMistake == Init /\ [][NextMistake]_vars

\* The accounts, the ledger and every entry point of the reports: the command
\* with and without --user, the script, and the three reports on their own.
InitFresh ==
    /\ users = {}
    /\ catalog = PopulatedCatalog
    /\ trades = << >>
    /\ next_id = 1
    /\ out = NoOutput

Signup == \E u \in UserNames : signup_view(u)

\* Tag sets large enough for the lists of ten and of five to be cut: the
\* first eleven mistakes of the catalog, and the seventh to the twelfth.
ManyTagSets ==
    {{},
     {mistake_ordering[k] : k \in 1..11},
     {mistake_ordering[k] : k \in 7..12}}

\* Long trades entered at 2 with an exit price of 3, with and without an exit date.
CreateManyTagged ==
    \E u \in UserNames, xd \in OptDates, ms \in ManyTagSets :
        TradeObjectsCreate(u, "buy", 1, 2, Some(3), xd, ms)

RunCommand == \E username \in {None} \cup {Some(u) : u \in UserNames} : handle(username)

RunScript == run_analytics_script

NextCommands ==
    \/ Signup
    \/ CreateManyTagged
    \/ RunCommand
    \/ RunScript
    \/ RunRuleFollowed
    \/ RunEmotion
    \/ RunMistake

SpecCommands == InitFresh /\ [][NextCommands]_vars

\* Model validation on instances built in memory and the two form views.
Nows == {1}

\* Instances handed to full_clean: quantities and prices around 0, dates
\* around now and now + Grace.
TradeInstances ==
    [side : {"buy"}, quantity : {0, 1}, entry_price : {0, 2},
     entry_date : {None, Some(2), Some(3)},
     exit_price : {None, Some(0), Some(3)},
     exit_date : {None, Some(1), Some(2), Some(3)}]

\* The data posted to the form.
FormData ==
    [side : {"buy"}, quantity : {0, 1}, entry_price : {2},
     entry_date : {Some(1), Some(3)},
     exit_price : {None, Some(0), Some(3)},
     exit_date : {None, Some(0), Some(1)}]

RunFullClean == \E t \in TradeInstances, now \in Nows : Trade_full_clean(t, now)

PostTradeCreate ==
    \E user \in UserNames, data \in FormData, now \in Nows : trade_create(user, data, now)

PostTradeUpdate ==
    \E user \in UserNames, trade_id \in 1..MaxTrades, data \in FormData, now \in Nows :
        trade_update(user, trade_id, data, now)

RunIsValid ==
    \E user \in {None} \cup {Some(u) : u \in UserNames}, data \in FormData, now \in Nows :
        TradeCreateForm_is_valid(user, data, now)

NextValidation == RunFullClean \/ PostTradeCreate \/ PostTradeUpdate \/ RunIsValid

SpecValidation == Init /\ [][NextValidation]_vars

\* The trades of two users, entered through the ORM and through the form,
\* and the update and delete views asked for any id by any of them.
CreateOwned == \E u \in UserNames : TradeObjectsCreate(u, "buy", 1, 2, None, None, {})

\* An open trade, a closed trade and a trade with a lone exit price.
OwnershipData ==
    [side : {"buy"}, quantity : {1}, entry_price : {2}, entry_date : {Some(1)},
     exit_price : {None, Some(3)}, exit_date : {None, Some(1)}]

TradeIds == 1..(MaxTrades + 1)

PostOwnedCreate ==
    \E user \in UserNames, data \in OwnershipData, now \in Nows :
        trade_create(user, data, now)

PostOwnedUpdate ==
    \E user \in UserNames, trade_id \in TradeIds, data \in OwnershipData, now \in Nows :
        trade_update(user, trade_id, data, now)

RequestDelete ==
    \E user \in UserNames, trade_id \in TradeIds, method \in {"GET", "POST"} :
        trade_delete(user, trade_id, method)

NextOwnership == CreateOwned \/ PostOwnedCreate \/ PostOwnedUpdate \/ RequestDelete

SpecOwnership == Init /\ [][NextOwnership]_vars

\* The catalog from an empty Mistake table on: the populate command, trades
\* tagged with what the catalog holds, and the emotion report.
InitEmptyCatalog ==
    /\ users = UserNames
    /\ catalog = {}
    /\ trades = << >>
    /\ next_id = 1
    /\ out = NoOutput

PopulateTagSets == {{}, {"FOMO trading"}, {"Slippage"}}

CreateFromCatalog ==
    \E xd \in OptDates, ms \in PopulateTagSets :
        TradeObjectsCreate("user0", "buy", 1, 2, Some(3), xd, ms)

RunPopulate == populate_mistakes

NextPopulate == RunPopulate \/ CreateFromCatalog \/ RunEmotion

SpecPopulate == InitEmptyCatalog /\ [][NextPopulate]_vars

\* ------------------------------------------------ rule-compliance report
IsRule == out.kind = "rule_followed_analysis"

\* The trade has exactly one of its two exit fields.
HalfExited(t) == (t.exit_price = None) # (t.exit_date = None)

\* C1: in the rule-compliance report the closed partition (exit price and
\* exit date both present) and the open partition (either absent) of the
\* user's trades are disjoint and cover them, and the two reported counts
\* add up to the number of the user's trades.
C1_ClosedOpenPartition ==
    IsRule =>
        LET all_trades == {i \in DOMAIN trades : trades[i].user = out.user}
            both == {i \in all_trades :
                        trades[i].exit_price # None /\ trades[i].exit_date # None}
            either == {i \in all_trades :
                        trades[i].exit_price = None \/ trades[i].exit_date = None}
        IN  /\ both \cap either = {}
            /\ both \cup either = all_trades
            /\ out.closed_count = Cardinality(both)
            /\ out.open_count = Cardinality(either)
            /\ out.closed_count + out.open_count = Cardinality(all_trades)

\* C1 witness: a report over a closed trade and a trade holding only an exit price.
C1_Witness ==
    /\ IsRule
    /\ out.closed_count = 1
    /\ out.open_count = 1
    /\ \E i \in user_trades(out.user) : HalfExited(trades[i])

\* C2: pnl is (exit - entry) * quantity for a closed buy, (entry - exit) *
\* quantity for a closed sell, and None for every open trade, that is whenever
\* the exit price or the exit date is missing.
C2_PnlDefinedIffClosed ==
    \A i \in DOMAIN trades :
        LET t == trades[i]
        IN  IF t.exit_price = None \/ t.exit_date = None
            THEN pnl(t) = None
            ELSE pnl(t) = Some(IF t.side = "buy"
                               THEN (Val(t.exit_price) - t.entry_price) * t.quantity
                               ELSE (t.entry_price - Val(t.exit_price)) * t.quantity)

\* C3: the summed P&L the rule-compliance report gives for the open partition
\* is 0.
C3_OpenPnlIsZero == IsRule => out.open_pnl = 0 /\ out.open_pnl_text = 0

\* C4 as stated: the report always gives a compliance rate, equal to
\* closed_count / (closed_count + open_count) * 100, in [0,100], and 0 when the
\* user has no trades.
C4_RateAlwaysReported ==
    IsRule =>
        /\ out.rule_followed_percentage # None
        /\ LET total == out.closed_count + out.open_count
               rate == Val(out.rule_followed_percentage)
           IN  /\ total = 0 => RatEq(rate, Rat(0, 1))
               /\ total > 0 => RatEq(rate, Rat(out.closed_count * 100, total))
               /\ RatLeq(Rat(0, 1), rate) /\ RatLeq(rate, Rat(100, 1))

\* C4 amended: the compliance-rate line is written exactly when the user has at
\* least one trade; it then equals closed_count / (closed_count + open_count) *
\* 100 and lies in [0,100] (printed in tenths: 0..1000). For a user without
\* trades no rate is written.
C4_RateReportedIffTrades ==
    IsRule =>
        LET total == out.closed_count + out.open_count
        IN  /\ (out.rule_followed_percentage # None) <=> (total > 0)
            /\ (out.rule_followed_percentage_text # None) <=> (total > 0)
            /\ total > 0 =>
                 LET rate == Val(out.rule_followed_percentage)
                 IN  /\ RatEq(rate, Rat(out.closed_count * 100, total))
                     /\ RatLeq(Rat(0, 1), rate) /\ RatLeq(rate, Rat(100, 1))
                     /\ Val(out.rule_followed_percentage_text) \in 0..1000

\* C4 witness: a report over one closed and one open trade (rate 50.0).
C4_Witness ==
    /\ IsRule
    /\ out.closed_count = 1
    /\ out.open_count = 1
    /\ out.rule_followed_percentage_text = Some(500)

\* C5 as stated: the average P&L per closed trade is closed_pnl / closed_count
\* when closed_count > 0 and is reported as 0 when there are no closed trades.
C5_AverageAlwaysReported ==
    IsRule =>
        /\ out.avg_closed_pnl # None
        /\ IF out.closed_count > 0
           THEN RatEq(Val(out.avg_closed_pnl), Rat(out.closed_pnl, out.closed_count))
           ELSE RatEq(Val(out.avg_closed_pnl), Rat(0, 1))

\* C5 amended: the average line is written exactly when there is at least one
\* closed trade, and then equals closed_pnl / closed_count, closed_pnl being the
\* sum of pnl over the closed trades; with no closed trade no average is
\* written and nothing is divided.
C5_AverageReportedIffClosed ==
    IsRule =>
        /\ (out.avg_closed_pnl # None) <=> (out.closed_count > 0)
        /\ (out.avg_closed_pnl_text # None) <=> (out.closed_count > 0)
        /\ out.closed_pnl = sum_pnl(closed_trades(user_trades(out.user)))
        /\ out.closed_count > 0 =>
             RatEq(Val(out.avg_closed_pnl), Rat(out.closed_pnl, out.closed_count))

\* C5 witness: a report over two closed trades whose P&L do not cancel.
C5_Witness ==
    /\ IsRule
    /\ out.closed_count = 2
    /\ out.closed_pnl # 0
    /\ out.avg_closed_pnl # None

\* ------------------------------------------------ emotion vs win rate report
IsEmotion == out.kind = "emotion_win_rate_analysis"

\* The user's trades carrying at least one emotional tag, and the others.
TaggedEmotional(u) ==
    {i \in DOMAIN trades :
        trades[i].user = u /\ trades[i].mistakes \cap emotional_mistakes # {}}
NotTaggedEmotional(u) ==
    {i \in DOMAIN trades :
        trades[i].user = u /\ trades[i].mistakes \cap emotional_mistakes = {}}

\* Closed trades and favourable closed trades of a set of trades.
BothExits(qs) ==
    {i \in qs : trades[i].exit_price # None /\ trades[i].exit_date # None}
Favourable(qs) ==
    {i \in BothExits(qs) :
        \/ trades[i].side = "buy" /\ Val(trades[i].exit_price) > trades[i].entry_price
        \/ trades[i].side = "sell" /\ Val(trades[i].exit_price) < trades[i].entry_price}

\* C6: in the emotion report every trade of the user is in exactly one
\* partition, emotional iff it carries at least one emotional tag (untagged
\* trades and trades with only other tags are non-emotional), each trade is
\* counted once, and the two counts add up to the number of the user's trades.
C6_EmotionPartition ==
    IsEmotion =>
        LET all_trades == {i \in DOMAIN trades : trades[i].user = out.user}
        IN  /\ emotional_trades(all_trades) = TaggedEmotional(out.user)
            /\ non_emotional_trades(all_trades) = NotTaggedEmotional(out.user)
            /\ out.emotional_count = Cardinality(TaggedEmotional(out.user))
            /\ out.non_emotional_count = Cardinality(NotTaggedEmotional(out.user))
            /\ out.emotional_count + out.non_emotional_count = Cardinality(all_trades)

\* C6 witness: a report over a trade with two emotional tags and a trade with
\* only a non-emotional tag.
C6_Witness ==
    /\ IsEmotion
    /\ out.emotional_count = 1
    /\ out.non_emotional_count = 1
    /\ \E i \in user_trades(out.user) :
          Cardinality(trades[i].mistakes \cap emotional_mistakes) = 2
    /\ \E i \in user_trades(out.user) : trades[i].mistakes = {"Slippage"}

\* C7: per partition, wins is the number of closed trades with (buy and exit >
\* entry) or (sell and exit < entry); open trades are in neither the wins nor
\* the closed count; a breakeven trade is no win; win rate = wins / closed * 100.
C7_WinsAreFavourableClosed ==
    IsEmotion =>
        LET emo == TaggedEmotional(out.user)
            non == NotTaggedEmotional(out.user)
        IN  /\ out.emotion_total = Cardinality(BothExits(emo))
            /\ out.emotion_wins = Cardinality(Favourable(emo))
            /\ out.non_emotion_total = Cardinality(BothExits(non))
            /\ out.non_emotion_wins = Cardinality(Favourable(non))
            /\ out.emotion_total > 0 =>
                 RatEq(out.emotion_win_rate, Rat(out.emotion_wins * 100, out.emotion_total))
            /\ out.non_emotion_total > 0 =>
                 RatEq(out.non_emotion_win_rate,
                       Rat(out.non_emotion_wins * 100, out.non_emotion_total))
            /\ out.emotion_wins + Cardinality({i \in BothExits(emo) :
                    trades[i].exit_price = Some(trades[i].entry_price)}) <= out.emotion_total
            /\ out.non_emotion_wins + Cardinality({i \in BothExits(non) :
                    trades[i].exit_price = Some(trades[i].entry_price)}) <= out.non_emotion_total

\* C7 witness: a report whose emotional partition holds a closed breakeven trade
\* and a closed winning trade.
C7_Witness ==
    /\ IsEmotion
    /\ out.emotion_total = 2
    /\ out.emotion_wins = 1
    /\ \E i \in BothExits(TaggedEmotional(out.user)) :
          trades[i].exit_price = Some(trades[i].entry_price)

\* C8: per partition wins <= closed <= total, the win rate is in [0,100], and
\* a partition without closed trades reports wins 0, closed 0 and win rate 0.
C8_WinRateBounds ==
    IsEmotion =>
        /\ 0 <= out.emotion_wins /\ out.emotion_wins <= out.emotion_total
        /\ out.emotion_total <= out.emotional_count
        /\ 0 <= out.non_emotion_wins /\ out.non_emotion_wins <= out.non_emotion_total
        /\ out.non_emotion_total <= out.non_emotional_count
        /\ RatLeq(Rat(0, 1), out.emotion_win_rate)
        /\ RatLeq(out.emotion_win_rate, Rat(100, 1))
        /\ RatLeq(Rat(0, 1), out.non_emotion_win_rate)
        /\ RatLeq(out.non_emotion_win_rate, Rat(100, 1))
        /\ out.emotion_win_rate_text \in 0..1000
        /\ out.non_emotion_win_rate_text \in 0..1000
        /\ out.emotion_total = 0 =>
             out.emotion_wins = 0 /\ out.emotion_win_rate_text = 0
                /\ RatEq(out.emotion_win_rate, Rat(0, 1))
        /\ out.non_emotion_total = 0 =>
             out.non_emotion_wins = 0 /\ out.non_emotion_win_rate_text = 0
                /\ RatEq(out.non_emotion_win_rate, Rat(0, 1))

\* C8 witness: a report whose emotional partition holds only a trade with a
\* favourable exit price and no exit date (no closed trade), the other
\* partition one closed winning trade.
C8_Witness ==
    /\ IsEmotion
    /\ out.emotional_count = 1
    /\ out.emotion_total = 0
    /\ out.non_emotion_total = 1
    /\ out.non_emotion_wins = 1
    /\ \E i \in TaggedEmotional(out.user) :
          trades[i].exit_date = None /\ i \in wins_filter({i})

\* C9: the win-rate difference (emotional minus non-emotional) is emitted if
\* and only if both partitions have at least one closed trade.
C9_DeltaIffBothClosed ==
    IsEmotion =>
        /\ (out.rate_diff # None) <=> (out.emotion_total > 0 /\ out.non_emotion_total > 0)
        /\ (out.rate_diff_text # None) <=> (out.rate_diff # None)
        /\ out.rate_diff # None =>
             RatEq(Val(out.rate_diff),
                   RatSub(Rat(out.emotion_wins * 100, out.emotion_total),
                          Rat(out.non_emotion_wins * 100, out.non_emotion_total)))

\* C9 witness: a report with a closed losing emotional trade and a closed
\* winning non-emotional trade (difference -100.0).
C9_Witness ==
    /\ IsEmotion
    /\ out.rate_diff # None
    /\ out.rate_diff_text = Some(0 - 1000)

\* ------------------------------------------------ mistake-frequency report
IsMistake == out.kind = "mistake_frequency_analysis"

\* The trades of user u carrying the tag named n.
Carrying(u, n) ==
    {i \in DOMAIN trades : trades[i].user = u /\ n \in trades[i].mistakes}

\* C10: the mistake-frequency list has an entry for a mistake iff at least one
\* of the user's own trades carries the tag, each mistake at most once; an
\* entry's frequency is the number of the user's trades carrying the tag; and
\* the list is in non-increasing order of frequency.
C10_FrequencyList ==
    IsMistake =>
        LET stats == out.mistake_stats
        IN  /\ \A m \in catalog :
                 (\E k \in 1..Len(stats) : stats[k].name = m.name)
                    <=> Carrying(out.user, m.name) # {}
            /\ \A k \in 1..Len(stats) :
                 /\ stats[k].name \in CatalogNames
                 /\ stats[k].frequency = Cardinality(Carrying(out.user, stats[k].name))
                 /\ stats[k].frequency > 0
            /\ \A j, k \in 1..Len(stats) : j # k => stats[j].name # stats[k].name
            /\ \A k \in 1..(Len(stats) - 1) : stats[k].frequency >= stats[k + 1].frequency
            /\ \A k \in 1..Len(out.listed) :
                 out.listed[k].name = stats[k].name
                    /\ out.listed[k].frequency = stats[k].frequency

\* C10 witness: a report for a user with two trades tagged FOMO trading, one of
\* them also tagged Slippage: the list starts with FOMO trading (frequency 2)
\* although Slippage is enumerated first.
C10_Witness ==
    /\ IsMistake
    /\ Len(out.mistake_stats) = 2
    /\ out.mistake_stats[1].name = "FOMO trading"
    /\ out.mistake_stats[1].frequency = 2
    /\ out.mistake_stats[2].name = "Slippage"
    /\ out.mistake_stats[2].frequency = 1

\* The place of a mistake in the catalog's enumeration (category, then name).
CatalogRank(n) == CHOOSE k \in 1..Len(mistake_ordering) : mistake_ordering[k] = n

\* C11: two entries of the mistake-frequency list with the same frequency
\* appear in the order in which the catalog enumerates their mistakes.
C11_TiesInCatalogOrder ==
    IsMistake =>
        LET stats == out.mistake_stats
        IN  \A j, k \in 1..Len(stats) :
                (j < k /\ stats[j].frequency = stats[k].frequency)
                    => CatalogRank(stats[j].name) < CatalogRank(stats[k].name)

\* C11 witness: FOMO trading (frequency 2) is moved to the front and the tied
\* Slippage and Revenge trading (frequency 1) follow in catalog order.
C11_Witness ==
    /\ IsMistake
    /\ Len(out.mistake_stats) = 3
    /\ out.mistake_stats[1].name = "FOMO trading"
    /\ out.mistake_stats[1].frequency = 2
    /\ out.mistake_stats[2].name = "Slippage"
    /\ out.mistake_stats[2].frequency = 1
    /\ out.mistake_stats[3].name = "Revenge trading"
    /\ out.mistake_stats[3].frequency = 1

\* The sum of f over the finite set S.
RECURSIVE SumOver(_, _)
SumOver(f, S) ==
    IF S = {} THEN 0
    ELSE LET x == CHOOSE y \in S : TRUE
         IN  f[x] + SumOver(f, S \ {x})

\* The signed profit or loss of a trade that has an exit price.
SignedPnl(t) ==
    IF t.side = "buy"
    THEN (Val(t.exit_price) - t.entry_price) * t.quantity
    ELSE (t.entry_price - Val(t.exit_price)) * t.quantity

\* C12: an entry's total_pnl is the sum of the signed P&L of the user's closed
\* trades carrying the tag (trades that are not closed count in the frequency
\* only), and its avg_pnl is that total divided by the number of those closed
\* trades, or 0 when there is none.
C12_PnlOverClosedTagged ==
    IsMistake =>
        \A k \in 1..Len(out.mistake_stats) :
            LET stat == out.mistake_stats[k]
                closed == BothExits(Carrying(out.user, stat.name))
                total == SumOver([i \in closed |-> SignedPnl(trades[i])], closed)
            IN  /\ stat.total_pnl = total
                /\ stat.frequency >= Cardinality(closed)
                /\ IF closed = {}
                   THEN stat.avg_pnl = Rat(0, 1)
                   ELSE RatEq(stat.avg_pnl, Rat(total, Cardinality(closed)))

\* C12 witness: a mistake carried by a trade closed at a gain of 1 and by a
\* trade with an exit price and no exit date: frequency 2, total 1, average 1.
C12_Witness ==
    /\ IsMistake
    /\ \E k \in 1..Len(out.mistake_stats) :
         LET stat == out.mistake_stats[k]
         IN  /\ stat.frequency = 2
             /\ stat.total_pnl = 1
             /\ RatEq(stat.avg_pnl, Rat(1, 1))
             /\ \E i \in Carrying(out.user, stat.name) :
                    trades[i].exit_price # None /\ trades[i].exit_date = None

\* The entries of the list whose mistake belongs to the category labelled c.
OfCategory(stats, c) == {k \in 1..Len(stats) : stats[k].category = c}

\* C14: in the category roll-up a category's count is the sum of the
\* frequencies, and its total P&L the sum of the total_pnl, of the listed
\* mistakes of that category; a category has a line, and only one, iff some
\* mistake of that category is carried by a trade of the user.
C14_CategoryRollUp ==
    IsMistake =>
        LET stats == out.mistake_stats
            cats == out.categories
        IN  /\ \A k \in 1..Len(cats) :
                 LET of == OfCategory(stats, cats[k].category)
                 IN  /\ of # {}
                     /\ cats[k].count = SumOver([j \in of |-> stats[j].frequency], of)
                     /\ cats[k].total_pnl = SumOver([j \in of |-> stats[j].total_pnl], of)
            /\ \A j, k \in 1..Len(cats) : j # k => cats[j].category # cats[k].category
            /\ \A m \in catalog :
                 (\E k \in 1..Len(cats) : cats[k].category = category_display(m.category))
                    <=> (\E n \in catalog :
                            n.category = m.category /\ Carrying(out.user, n.name) # {})

\* C14 witness: FOMO trading (frequency 2) and Revenge trading (frequency 1)
\* roll up to Psychology/Emotion with count 3, next to Trade Execution with 1.
C14_Witness ==
    /\ IsMistake
    /\ Len(out.categories) = 2
    /\ out.categories[1].category = "Psychology/Emotion"
    /\ out.categories[1].count = 3
    /\ out.categories[1].total_pnl # 0
    /\ out.categories[2].category = "Trade Execution"
    /\ out.categories[2].count = 1
    /\ Cardinality(OfCategory(out.mistake_stats, "Psychology/Emotion")) = 2

\* C15: the category lines are in non-increasing order of count, and a line's
\* average is its total P&L divided by its count, the count being the number
\* of taggings of the category on the user's trades, closed or not, and never 0.
C15_CategoryOrderAndAverage ==
    IsMistake =>
        LET cats == out.categories
        IN  /\ \A k \in 1..(Len(cats) - 1) : cats[k].count >= cats[k + 1].count
            /\ \A k \in 1..Len(cats) :
                 LET ms == {m \in catalog : category_display(m.category) = cats[k].category}
                 IN  /\ cats[k].count > 0
                     /\ cats[k].count =
                            SumOver([m \in ms |-> Cardinality(Carrying(out.user, m.name))], ms)
                     /\ cats[k].avg_pnl.den # 0
                     /\ RatEq(cats[k].avg_pnl, Rat(cats[k].total_pnl, cats[k].count))

\* C15 witness: Slippage heads the list, so Trade Execution is met first, and
\* Psychology/Emotion is moved ahead of it with count 4; one of the two trades
\* is closed at a gain of 1 and the other is not closed, so the average is 2/4.
C15_Witness ==
    /\ IsMistake
    /\ Len(out.mistake_stats) = 3
    /\ out.mistake_stats[1].name = "Slippage"
    /\ Len(out.categories) = 2
    /\ out.categories[1].category = "Psychology/Emotion"
    /\ out.categories[1].count = 4
    /\ out.categories[1].total_pnl = 2
    /\ RatEq(out.categories[1].avg_pnl, Rat(1, 2))
    /\ out.categories[2].category = "Trade Execution"
    /\ out.categories[2].count = 2

\* ----------------------------------------------------------- entry points
IsCommand == out.kind = "analytics"
IsScript == out.kind = "run_analytics.py"

\* The names and frequencies of the first n entries of a list (all of them
\* when it has fewer).
FirstEntries(list, n) ==
    [k \in 1..(IF Len(list) < n THEN Len(list) ELSE n) |->
        <<list[k].name, list[k].frequency>>]

\* C13: the list a report prints is the first N entries of its fully sorted
\* list, all of them when there are fewer: N = 10 for the command and N = 5
\* for the script; and the script's printed list is the first five entries of
\* the list the command prints for the same user on the same data.
C13_TopNRefinement ==
    /\ IsMistake => FirstEntries(out.listed, 33) = FirstEntries(out.mistake_stats, 10)
    /\ IsCommand =>
         \A k \in 1..Len(out.reports) :
            FirstEntries(out.reports[k].mistake.listed, 33)
                = FirstEntries(out.reports[k].mistake.mistake_stats, 10)
    /\ (IsScript /\ out.traceback = None) =>
         LET r == out.reports[1].mistake
         IN  /\ FirstEntries(r.listed, 33) = FirstEntries(r.mistake_stats, 5)
             /\ r.listed = top(MistakeReport(r.user).listed, 5)
             /\ r.mistake_stats = MistakeReport(r.user).mistake_stats

\* C13 witness: the script run on twelve tagged mistakes prints five of them,
\* the five of frequency 2, where the command prints ten.
C13_Witness ==
    /\ IsScript
    /\ out.traceback = None
    /\ Len(out.reports[1].mistake.mistake_stats) = 12
    /\ Len(out.reports[1].mistake.listed) = 5
    /\ out.reports[1].mistake.listed[5].frequency = 2
    /\ out.reports[1].mistake.mistake_stats[6].frequency = 1
    /\ Len(MistakeReport("user0").listed) = 10

\* The step is a run of a report: one of the three reports on its own, the
\* command or the script.
ReportStep ==
    out'.kind \in {"rule_followed_analysis", "emotion_win_rate_analysis",
                   "mistake_frequency_analysis", "analytics", "run_analytics.py"}

\* C16: a run of a report, whichever it is and whatever ran before it, leaves
\* the trades with their fields and tags, the catalog and the accounts as
\* they were.
C16_ReportsAreReadOnly ==
    [][ReportStep => (trades' = trades /\ catalog' = catalog /\ users' = users)]_vars

\* C16 witness: a report has run on a ledger of two tagged trades, one of them
\* with an exit price and no exit date.
C16_Witness ==
    /\ out.kind \in {"rule_followed_analysis", "emotion_win_rate_analysis",
                     "mistake_frequency_analysis", "analytics", "run_analytics.py"}
    /\ Len(trades) = 2
    /\ trades[1].mistakes # {}
    /\ trades[2].exit_price # None /\ trades[2].exit_date = None

\* C17: a report asked for a named user who does not exist ends with the
\* 'not found' message, no report section and no unhandled exception, at
\* every entry point that looks a user up by name.
C17_MissingUserIsReported ==
    ((IsCommand \/ IsScript) /\ out.username # None /\ Val(out.username) \notin users)
        => /\ out.traceback = None
           /\ out.error = Some("not found")
           /\ out.reports = << >>

\* ------------------------------------------------------------ Trade.is_closed
\* C18: is_closed is true of a trade exactly when its exit price and its exit
\* date are both present: false with neither, false with exactly one of them,
\* true with both; it agrees with the closed filter of the reports.
C18_IsClosedIffBothExits ==
    \A i \in DOMAIN trades :
        LET t == trades[i]
        IN  /\ (Len(t.exit_price) = 0 /\ Len(t.exit_date) = 0) => ~is_closed(t)
            /\ HalfExited(t) => ~is_closed(t)
            /\ (Len(t.exit_price) = 1 /\ Len(t.exit_date) = 1) => is_closed(t)
            /\ is_closed(t) <=> i \in BothExits(DOMAIN trades)

\* C18 witness: a ledger with a closed trade and a trade that has an exit
\* price and no exit date, which is not closed.
C18_Witness ==
    /\ Len(trades) = 2
    /\ is_closed(trades[1])
    /\ trades[1].exit_price # None /\ trades[1].exit_date # None
    /\ ~is_closed(trades[2])
    /\ trades[2].exit_price # None /\ trades[2].exit_date = None

\* ------------------------------------------------------------- validation
IsFullClean == out.kind = "full_clean"
IsFormPost == out.kind \in {"trade_create", "trade_update"}

\* The form's clean ran on the posted data and raised nothing.
FormCleanAccepted ==
    IsFormPost /\ out.status # "not found" /\ out.exception = None /\ out.form_clean = None

\* C19: a trade that Trade.clean accepts, and a trade that the form's own
\* validation accepts, has both or neither of exit price and exit date; and
\* no trade stored through the form views has exactly one of them.
C19_ExitFieldsTogether ==
    /\ (IsFullClean /\ out.errors = {}) => ~HalfExited(out.instance)
    /\ FormCleanAccepted => ~HalfExited(out.data)
    /\ \A i \in DOMAIN trades : ~HalfExited(trades[i])

\* C19 witness: an open trade was stored through the form and then updated
\* through it with an exit price and an exit date.
C19_Witness ==
    /\ out.kind = "trade_update"
    /\ out.status = "redirect"
    /\ out.data.exit_price # None /\ out.data.exit_date # None
    /\ \E i \in DOMAIN trades :
         /\ trades[i].exit_price = out.data.exit_price
         /\ trades[i].exit_date = out.data.exit_date
    /\ \E i \in DOMAIN trades : trades[i].exit_price = None /\ trades[i].exit_date = None

\* C20: an instance passes full_clean only if its quantity and entry price
\* are above 0, its exit price is absent or above 0, neither date is more
\* than one minute after now, and the exit date is not before the entry
\* date; an instance breaking one of these gets a ValidationError.
C20_FullCleanConditions ==
    IsFullClean =>
        LET t == out.instance
            conditions ==
                /\ t.quantity > 0
                /\ t.entry_price > 0
                /\ t.exit_price = None \/ Val(t.exit_price) > 0
                /\ t.entry_date = None \/ Val(t.entry_date) <= out.now + 1
                /\ t.exit_date = None \/ Val(t.exit_date) <= out.now + 1
                /\ (t.entry_date # None /\ t.exit_date # None)
                      => Val(t.exit_date) >= Val(t.entry_date)
        IN  /\ out.errors = {} => conditions
            /\ ~conditions => \E e \in out.errors : e[1] = "__all__"

\* C20 witness: a closed trade entered and exited at now + 1 minute passes.
C20_Witness ==
    /\ IsFullClean
    /\ out.errors = {}
    /\ out.instance.entry_date = Some(out.now + 1)
    /\ out.instance.exit_date = Some(out.now + 1)
    /\ out.instance.exit_price = Some(3)

\* ------------------------------------------------------------ form tests
IsValidCall == out.kind = "is_valid"

\* The posted data is acceptable: positive quantity and prices within the
\* limits, dates not after now, an exit price and an exit date together or not
\* at all, the exit not before the entry (side and symbol always are).
WellFormed(data, now) ==
    /\ data.quantity > 0 /\ data.quantity <= 1000000
    /\ data.entry_price > 0 /\ data.entry_price <= 10000000
    /\ Val(data.entry_date) <= now
    /\ (data.exit_price = None) = (data.exit_date = None)
    /\ data.exit_price # None =>
         /\ Val(data.exit_price) > 0 /\ Val(data.exit_price) <= 10000000
         /\ Val(data.exit_date) <= now
         /\ Val(data.exit_date) >= Val(data.entry_date)

\* C21: a form built without a user and given acceptable data validates
\* without raising, and is_valid() is true.
C21_FormWithoutUserAccepts ==
    (IsValidCall /\ out.user = None /\ WellFormed(out.data, out.now))
        => (out.exception = None /\ out.is_valid)

\* C22: a form given an exit price without an exit date is invalid with an
\* error under the key exit_date, and a form given a quantity of 0 or less is
\* invalid with an error under the key quantity.
C22_ErrorsKeyedByField ==
    IsValidCall =>
        /\ (Truthy(out.data.exit_price) /\ out.data.exit_date = None) =>
              /\ out.exception = None
              /\ ~out.is_valid
              /\ \E e \in out.errors : e[1] = "exit_date"
        /\ out.data.quantity <= 0 =>
              /\ out.exception = None
              /\ ~out.is_valid
              /\ \E e \in out.errors : e[1] = "quantity"

\* ------------------------------------------------------------- ownership
IsOwnedRequest == out.kind \in {"trade_update", "trade_delete"}

\* C23: a step changes or removes a trade only if it is an update or delete
\* request for that trade by its owner, removes it only on a POST to the
\* delete view, and never changes a trade's owner; an update or delete
\* request for an id that does not exist or belongs to someone else answers
\* not found and leaves the trades as they were; a GET on the delete view
\* leaves them as they were.
C23_OnlyOwnerChangesTrade ==
    [][/\ \A i \in DOMAIN trades :
            /\ i \in DOMAIN trades' => trades'[i].user = trades[i].user
            /\ (i \notin DOMAIN trades' \/ trades'[i] # trades[i]) =>
                  /\ out'.kind \in {"trade_update", "trade_delete"}
                  /\ out'.user = trades[i].user
                  /\ out'.trade_id = i
            /\ i \notin DOMAIN trades' =>
                  (out'.kind = "trade_delete" /\ out'.method = "POST")
       /\ (out'.kind \in {"trade_update", "trade_delete"}
              /\ (out'.trade_id \notin DOMAIN trades
                    \/ trades[out'.trade_id].user # out'.user)) =>
             (out'.status = "not found" /\ trades' = trades)
       /\ (out'.kind = "trade_delete" /\ out'.method = "GET") => trades' = trades
      ]_vars

\* C23 witness: after a user deleted the first trade, an update of the
\* other user's trade, with data the form accepts, is answered not found.
C23_Witness ==
    /\ out.kind = "trade_update"
    /\ out.status = "not found"
    /\ out.user = "alice"
    /\ out.data.exit_price # None /\ out.data.exit_date # None
    /\ 1 \notin DOMAIN trades
    /\ out.trade_id \in DOMAIN trades
    /\ trades[out.trade_id].user = "user0"

\* ------------------------------------------------------- wins and P&L sign
\* C24: a closed trade with a quantity above 0 passes the wins filter of the
\* emotion report iff its pnl is above 0, a closed trade exited at its entry
\* price has pnl 0 and is no win, and the wins the report counts are the
\* user's closed trades with a pnl above 0.
C24_WinIffPositivePnl ==
    /\ \A i \in BothExits(DOMAIN trades) :
          trades[i].quantity > 0 =>
             /\ (i \in wins_filter({i})) <=> (Val(pnl(trades[i])) > 0)
             /\ Val(trades[i].exit_price) = trades[i].entry_price =>
                   (Val(pnl(trades[i])) = 0 /\ i \notin wins_filter({i}))
    /\ IsEmotion =>
          out.emotion_wins + out.non_emotion_wins =
             Cardinality({i \in BothExits(DOMAIN trades) :
                            trades[i].user = out.user /\ Val(pnl(trades[i])) > 0})

\* C24 witness: the report counts one win, a closed short trade exited below
\* its entry price (pnl above 0), next to a closed breakeven trade (pnl 0).
C24_Witness ==
    /\ IsEmotion
    /\ out.emotion_wins + out.non_emotion_wins = 1
    /\ \E i, j \in BothExits(DOMAIN trades) :
          /\ trades[i].user = out.user /\ trades[j].user = out.user
          /\ trades[i].side = "sell"
          /\ Val(trades[i].exit_price) < trades[i].entry_price
          /\ Val(pnl(trades[i])) > 0
          /\ Val(trades[j].exit_price) = trades[j].entry_price
          /\ pnl(trades[j]) = Some(0)

\* ------------------------------------------------------ populate_mistakes
\* C25: a run of populate_mistakes leaves exactly one mistake per predefined
\* name, keeps every mistake that was there as it was (name, category and
\* description), reports as created the number of rows it added, which is 0
\* when the catalog was populated before, and leaves the five emotional
\* names of the emotion report in the catalog with category psychology.
C25_PopulateIdempotent ==
    [][out'.kind = "populate_mistakes" =>
         /\ \A k \in 1..Len(mistakes_data) :
               Cardinality({m \in catalog' : m.name = mistakes_data[k][1]}) = 1
         /\ \A m \in catalog : m \in catalog'
         /\ out'.created_count = Cardinality(catalog') - Cardinality(catalog)
         /\ out.kind = "populate_mistakes" =>
               (out'.created_count = 0 /\ catalog' = catalog)
         /\ catalog # {} => (out'.created_count = 0 /\ catalog' = catalog)
         /\ \A n \in emotional_mistakes :
               \E m \in catalog' : m.name = n /\ m.category = "psychology"
      ]_vars

\* C25 witness: a run that created nothing, on a populated catalog whose
\* FOMO trading tag is already carried by a trade.
C25_Witness ==
    /\ out.kind = "populate_mistakes"
    /\ out.created_count = 0
    /\ Cardinality(catalog) = 33
    /\ \E i \in DOMAIN trades : "FOMO trading" \in trades[i].mistakes

====
